---- MODULE Spec2Model ----
(***************************************************************************)
(* Model of src/services/json_rpc/ws_server.cpp (mink-core): the WsListener *)
(* accept loop and the WsSession handshake / read / reply / write loop.     *)
(* Every action is one completion handler run to its end on the reactor;    *)
(* handlers of one session never overlap (they run on the session strand).  *)
(***************************************************************************)
EXTENDS Integers, Sequences, FiniteSets, TLC

\* ---- bounds of the model ------------------------------------------------
MaxSessions == 2      \* connections the listener accepts successfully
MaxMsgs == 2          \* read completions delivered to one session

\* ---- program constants --------------------------------------------------
ParseErrCode == -1    \* gen_err(-1): parse / validation failure
AcceptedCode == 999   \* gen_err(999): accepted, not dispatched
CloseNormal == 1000   \* websocket::close_code::normal

Sids == 1..MaxSessions
Ops == {"run", "accept", "read", "write", "close"}
ZeroOps == [o \in Ops |-> 0]
SetupSteps == <<"open", "set_option", "bind", "listen">>

\* ---- JSON values and texts ----------------------------------------------
\* A JSON value is described by its type and, for an object, by the types of
\* the members the envelope validator looks at; error is <<code>> for an
\* error envelope and <<>> otherwise.
JVal(type, method, params, id, error) ==
    [type |-> type, method |-> method, params |-> params, id |-> id, error |-> error]

\* json::parse(..., nullptr, false) yields a value of type discarded
Discarded == JVal("discarded", "absent", "absent", "absent", <<>>)

\* A text is either well-formed JSON denoting a value, or anything else.
Text(wf, val) == [wf |-> wf, val |-> val]
EmptyText == Text(FALSE, Discarded)
Garbage == Text(FALSE, Discarded)
\* the payload of a binary message, read as text
Binary == Garbage

\* json::dump(): the serialised form of a value
dump(j) == Text(TRUE, j)

\* json::parse(text, nullptr, false)
parse(t) == IF t.wf THEN t.val ELSE Discarded

is_discarded(j) == j.type = "discarded"

\* JsonRpc::gen_err(code): {jsonrpc: "2.0", error: {code, message}, id: null}
gen_err(code) == JVal("object", "absent", "absent", "null", <<code>>)

\* JsonRpc::verify(): TRUE when it returns, FALSE when it throws
verify(j) ==
    /\ j.type = "object"
    /\ j.method = "string"
    /\ j.params \in {"absent", "array", "object"}
    /\ j.id \in {"absent", "string", "number", "null"}

\* the text payloads a peer sends
Payloads ==
    { Garbage,
      dump(JVal("object", "string", "absent", "number", <<>>)),
      dump(JVal("object", "absent", "absent", "number", <<>>)),
      dump(JVal("object", "string", "string", "number", <<>>)),
      dump(JVal("object", "string", "absent", "bool", <<>>)) }

\* std::string rpc_data(buffers_begin(buffer_.data()), buffers_end(...)):
\* the readable bytes of the buffer as one text
rpc_data(buf) ==
    IF Len(buf) = 0 THEN EmptyText
    ELSE IF Len(buf) = 1 THEN buf[1]
    ELSE Garbage

VARIABLES listener, nSessions, sessions

vars == <<listener, nSessions, sessions>>

\* ---- diagnostic sink ----------------------------------------------------
\* fail(ec, what): writes "what: message" to std::cerr; the report is the
\* category written.
fail(what) == what

\* ---- session ------------------------------------------------------------
\* the handler that ran last on a session: the error code it got, for a
\* read what got_text() and the buffer held when it was entered, the codes
\* of the envelopes it sent, what it reported to the sink and the
\* operations it began
NoLast == [h |-> "none", ec |-> "none", text |-> FALSE, in |-> EmptyText,
           reply |-> <<>>, failed |-> "none", started |-> ZeroOps]

\* WsSession::WsSession(tcp::socket&&)
NewSession ==
    [created |-> FALSE,
     ops |-> ZeroOps,          \* asynchronous operations in flight
     owners |-> ZeroOps,       \* shared_ptr copies held by pending handlers
     buffer_ |-> <<>>,         \* beast::flat_buffer, readable bytes
     got_text |-> TRUE,        \* ws_.got_text()
     wr_text |-> TRUE,         \* ws_.text()
     wbuf |-> <<>>,            \* bytes handed to the last async_write
     closes |-> <<>>,          \* close codes passed to async_close
     nreads |-> 0,             \* reads completed
     last |-> NoLast]

\* an asynchronous operation is started; holds = 1 when its completion
\* handler is bound to shared_from_this()
Start(S, op, holds) ==
    [S EXCEPT !.ops[op] = @ + 1,
              !.owners[op] = @ + holds,
              !.last.started[op] = @ + 1]

\* the completion handler of op is entered with ec
Enter(S, op, h, ec) ==
    [S EXCEPT !.ops[op] = @ - 1,
              !.last = [NoLast EXCEPT !.h = h, !.ec = ec]]

\* std::shared_ptr::use_count of the session
use_count(S) ==
    S.owners["run"] + S.owners["accept"] + S.owners["read"]
        + S.owners["write"] + S.owners["close"]

\* ~WsSession: the stream and the buffer of the session are gone
Destroy(S) ==
    [S EXCEPT !.buffer_ = <<>>, !.got_text = TRUE, !.wr_text = TRUE, !.wbuf = <<>>]

\* the completion handler of op has returned: its bound shared_ptr is
\* released, and the session is destroyed when that was the last one
Leave(S, op) ==
    LET R == [S EXCEPT !.owners[op] = IF @ > 0 THEN @ - 1 ELSE 0]
    IN  IF use_count(R) = 0 THEN Destroy(R) ELSE R

Report(S, what) ==
    [S EXCEPT !.last.failed = fail(what)]

InFlight(S) ==
    S.ops["run"] + S.ops["accept"] + S.ops["read"] + S.ops["write"] + S.ops["close"]

Destroyed(S) == S.created /\ use_count(S) = 0

\* WsSession::run: net::dispatch(..., on_run bound to shared_from_this())
session_run(S) == Start(S, "run", 1)

\* WsSession::on_run: ws_.async_accept
on_run(S) == Start(S, "accept", 1)

\* WsSession::do_read: ws_.async_read(buffer_, ...)
do_read(S) == Start(S, "read", 1)


\* on_accept with fail(ec, "accept") but no return
session_on_accept_no_return(S, ec) ==
    IF ec # "ok"
    THEN do_read(Report(S, "accept"))
    ELSE do_read(S)

\* WsSession::on_accept
session_on_accept(S, ec) ==
    IF ec # "ok"
    THEN Report(S, "accept")
    ELSE do_read(S)

\* send_buff that goes on reading without waiting for the write
send_buff_then_read(S, bytes) ==
    LET C == [S EXCEPT !.buffer_ = @ \o bytes]
    IN  do_read(Start([C EXCEPT !.wbuf = C.buffer_], "write", 1))

\* WsSession::send_buff(b, sz): b.commit(sz); ws_.async_write(b.data(), ...)
send_buff(S, bytes) ==
    LET C == [S EXCEPT !.buffer_ = @ \o bytes]
    IN  Start([C EXCEPT !.wbuf = C.buffer_], "write", 1)

\* ws_rpl = gen_err(code).dump(); buffer_copy(buffer_.prepare(...)); send_buff
reply(S, code) ==
    send_buff([S EXCEPT !.last.reply = @ \o <<code>>], <<dump(gen_err(code))>>)


\* the non-text branch without its return: closes and goes on to reply
reject_non_text_then_reply(S) ==
    reply([Start(S, "close", 0) EXCEPT !.closes = @ \o <<CloseNormal>>,
                                       !.buffer_ = <<>>],
          ParseErrCode)

\* the non-text branch without its return: closes and goes on reading
reject_non_text_no_return(S) ==
    do_read([Start(S, "close", 0) EXCEPT !.closes = @ \o <<CloseNormal>>])

\* on_read, the frame is not text: async_close(normal) and return
reject_non_text(S) ==
    [Start(S, "close", 0) EXCEPT !.closes = @ \o <<CloseNormal>>]


\* the parse-error branch answering with the code of the success path
reply_parse_error_as_accepted(S) == reply(S, AcceptedCode)

\* the parse-error branch without its return: falls through to "no error"
reply_parse_error_no_return(S) == reply(reply(S, ParseErrCode), AcceptedCode)

\* the parse-error branch closing the connection instead of replying
close_on_parse_error(S) ==
    [Start(S, "close", 0) EXCEPT !.closes = @ \o <<CloseNormal>>]

\* on_read, j.is_discarded()
reply_parse_error(S) == reply(S, ParseErrCode)

\* the catch branch without its reply and return: the exception is swallowed
reply_verify_error_swallowed(S) == reply(S, AcceptedCode)

\* on_read, verify() threw
reply_verify_error(S) == reply(S, ParseErrCode)


\* the success path answering with the error code
reply_accepted_with_error_code(S) == reply(S, ParseErrCode)

\* on_read, "no error"
reply_accepted(S) == reply(S, AcceptedCode)


\* on_read without the check for websocket::error::closed
on_read_no_closed_check(S, ec) ==
    LET F == IF ec # "ok" THEN Report(S, "read") ELSE S
    IN
    IF ~F.got_text
    THEN reject_non_text(F)
    ELSE
      LET j == parse(rpc_data(F.buffer_))
          T == [F EXCEPT !.wr_text = TRUE, !.buffer_ = <<>>]
      IN
      IF is_discarded(j) THEN reply_parse_error(T)
      ELSE IF ~verify(j) THEN reply_verify_error(T)
      ELSE reply_accepted(T)

\* WsSession::on_read, after the read has completed with ec
on_read(S, ec) ==
    IF ec = "closed"
    THEN S
    ELSE
      LET F == IF ec # "ok" THEN Report(S, "read") ELSE S
      IN
      IF ~F.got_text
      THEN reject_non_text(F)
      ELSE
        LET j == parse(rpc_data(F.buffer_))
            T == [F EXCEPT !.wr_text = TRUE, !.buffer_ = <<>>]
        IN
        IF is_discarded(j) THEN reply_parse_error(T)
        ELSE IF ~verify(j) THEN reply_verify_error(T)
        ELSE reply_accepted(T)




\* on_write that clears the buffer and does not read again
on_write_no_read(S, ec) ==
    IF ec # "ok"
    THEN Report(S, "write")
    ELSE [S EXCEPT !.buffer_ = <<>>]

\* on_write that reads again without consuming the reply left in buffer_
on_write_no_consume(S, ec) ==
    IF ec # "ok"
    THEN Report(S, "write")
    ELSE do_read(S)

\* on_write with fail(ec, "write") but no return
on_write_no_return(S, ec) ==
    IF ec # "ok"
    THEN do_read([Report(S, "write") EXCEPT !.buffer_ = <<>>])
    ELSE do_read([S EXCEPT !.buffer_ = <<>>])

\* WsSession::on_write
on_write(S, ec) ==
    IF ec # "ok"
    THEN Report(S, "write")
    ELSE do_read([S EXCEPT !.buffer_ = <<>>])

\* ---- listener -----------------------------------------------------------
NoLLast == [h |-> "none", ec |-> "none", failed |-> "none", armed |-> 0, spawned |-> 0]

NewListener ==
    [pc |-> "new",
     acceptor_ |-> "closed",   \* closed, open, bound or listening
     attempted |-> <<>>,       \* the setup steps the constructor called
     pending |-> 0,            \* async_accept operations in flight
     last |-> NoLLast]

\* the state of the acceptor when the setup steps before position k succeeded
AcceptorAfter(k) ==
    IF k <= 1 THEN "closed"
    ELSE IF k <= 3 THEN "open"
    ELSE IF k = 4 THEN "bound"
    ELSE "listening"


\* the constructor without the returns: a failed step is reported and the
\* later steps are called all the same
WsListener_no_return(L, failAt) ==
    LET failed == failAt <= Len(SetupSteps)
    IN  [L EXCEPT !.pc = "constructed",
                  !.attempted = SetupSteps,
                  !.acceptor_ = AcceptorAfter(failAt),
                  !.last = [NoLLast EXCEPT !.h = "WsListener",
                                           !.ec = IF failed THEN "err" ELSE "ok",
                                           !.failed = IF failed THEN fail(SetupSteps[failAt]) ELSE "none"]]

\* WsListener::WsListener: open, set_option, bind, listen; the first step
\* that fails is reported and ends the constructor.  failAt = 5: none fails.
WsListener(L, failAt) ==
    LET failed == failAt <= Len(SetupSteps)
    IN  [L EXCEPT !.pc = "constructed",
                  !.attempted = SubSeq(SetupSteps, 1, IF failed THEN failAt ELSE Len(SetupSteps)),
                  !.acceptor_ = AcceptorAfter(failAt),
                  !.last = [NoLLast EXCEPT !.h = "WsListener",
                                           !.ec = IF failed THEN "err" ELSE "ok",
                                           !.failed = IF failed THEN fail(SetupSteps[failAt]) ELSE "none"]]

\* WsListener::do_accept: acceptor_.async_accept
do_accept(L) == [L EXCEPT !.pending = @ + 1, !.last.armed = @ + 1]

\* WsListener::run
listener_run(L) ==
    do_accept([L EXCEPT !.pc = "running", !.last = [NoLLast EXCEPT !.h = "run"]])

\* on_accept that accepts the next connection only in its else branch
listener_on_accept_rearm_on_success(L, ec) ==
    LET E == [L EXCEPT !.pending = @ - 1,
                       !.last = [NoLLast EXCEPT !.h = "on_accept", !.ec = ec]]
    IN  IF ec # "ok"
        THEN [E EXCEPT !.last.failed = fail("accept")]
        ELSE do_accept([E EXCEPT !.last.spawned = @ + 1])


\* on_accept without its else: makes a session of the socket of a failed accept
listener_on_accept_spawn_always(L, ec) ==
    LET E == [L EXCEPT !.pending = @ - 1,
                       !.last = [NoLLast EXCEPT !.h = "on_accept", !.ec = ec]]
        H == IF ec # "ok" THEN [E EXCEPT !.last.failed = fail("accept")] ELSE E
    IN  do_accept([H EXCEPT !.last.spawned = @ + 1])

\* WsListener::on_accept(ec, socket); the session it makes is in Accepted
listener_on_accept(L, ec) ==
    LET E == [L EXCEPT !.pending = @ - 1,
                       !.last = [NoLLast EXCEPT !.h = "on_accept", !.ec = ec]]
        H == IF ec # "ok"
             THEN [E EXCEPT !.last.failed = fail("accept")]
             ELSE [E EXCEPT !.last.spawned = @ + 1]
    IN  do_accept(H)

Init ==
    /\ listener = NewListener
    /\ nSessions = 0
    /\ sessions = [s \in Sids |-> NewSession]

Construct(failAt) ==
    /\ listener.pc = "new"
    /\ listener' = WsListener(listener, failAt)
    /\ UNCHANGED <<nSessions, sessions>>

Run ==
    /\ listener.pc = "constructed"
    /\ listener' = listener_run(listener)
    /\ UNCHANGED <<nSessions, sessions>>

\* std::make_shared<WsSession>(std::move(socket))->run(): net::dispatch
\* either runs on_run at once or posts it to the strand of the session
Accepted(inline) ==
    LET S == [NewSession EXCEPT !.created = TRUE]
    IN  IF inline
        THEN on_run([S EXCEPT !.last.h = "on_run"])
        ELSE session_run([S EXCEPT !.last.h = "run"])

\* an accept completes.  An accept on an acceptor that is not listening can
\* only complete with an error.
ListenerOnAccept(ec, inline) ==
    /\ listener.pc = "running"
    /\ listener.pending > 0
    /\ ec = "ok" => (listener.acceptor_ = "listening" /\ nSessions < MaxSessions)
    /\ ec # "ok" => ~inline
    /\ listener' = listener_on_accept(listener, ec)
    /\ IF listener'.last.spawned > 0
       THEN /\ nSessions' = nSessions + 1
            /\ sessions' = [sessions EXCEPT ![nSessions + 1] = Accepted(inline)]
       ELSE UNCHANGED <<nSessions, sessions>>

\* the dispatched WsSession::on_run runs on the strand
SessionOnRun(s) ==
    /\ sessions[s].ops["run"] > 0
    /\ sessions' = [sessions EXCEPT ![s] =
           Leave(on_run(Enter(@, "run", "on_run", "ok")), "run")]
    /\ UNCHANGED <<listener, nSessions>>

\* the handshake completes: WsSession::on_accept(ec)
SessionOnAccept(s, ec) ==
    /\ sessions[s].ops["accept"] > 0
    /\ sessions' = [sessions EXCEPT ![s] =
           Leave(session_on_accept(Enter(@, "accept", "on_accept", ec), ec), "accept")]
    /\ UNCHANGED <<listener, nSessions>>

\* what a completed read leaves in the stream: on success one message is
\* appended to buffer_ and got_text() tells its kind; on an error the bytes
\* received so far (none, or a partial message) are in buffer_ and
\* got_text() is the kind of the message that was being read.
ReadArrives(S, data, txt) ==
    [S EXCEPT !.buffer_ = @ \o data, !.got_text = txt, !.nreads = @ + 1,
              !.last.text = txt, !.last.in = rpc_data(S.buffer_ \o data)]

\* a read completes: WsSession::on_read(ec, bytes)
SessionOnRead(s, ec, data, txt) ==
    /\ sessions[s].ops["read"] > 0
    /\ sessions[s].nreads < MaxMsgs
    /\ ec = "ok" => Len(data) = 1
    /\ ~txt => data \in {<<>>, <<Binary>>}
    /\ sessions' = [sessions EXCEPT ![s] =
           Leave(on_read(ReadArrives(Enter(@, "read", "on_read", ec), data, txt), ec), "read")]
    /\ UNCHANGED <<listener, nSessions>>

\* a write completes: WsSession::on_write(ec, bytes)
SessionOnWrite(s, ec) ==
    /\ sessions[s].ops["write"] > 0
    /\ sessions' = [sessions EXCEPT ![s] =
           Leave(on_write(Enter(@, "write", "on_write", ec), ec), "write")]
    /\ UNCHANGED <<listener, nSessions>>

\* the close completes: the handler [](beast::error_code) {} ignores ec
SessionOnClose(s, ec) ==
    /\ sessions[s].ops["close"] > 0
    /\ sessions' = [sessions EXCEPT ![s] =
           Leave(Enter(@, "close", "close_handler", ec), "close")]
    /\ UNCHANGED <<listener, nSessions>>

Ecs == {"ok", "err"}
ReadEcs == {"ok", "closed", "err"}
ReadData == {<<>>} \cup {<<t>> : t \in Payloads}

Next ==
    \/ \E failAt \in 1..(Len(SetupSteps) + 1) : Construct(failAt)
    \/ Run
    \/ \E ec \in Ecs, inline \in BOOLEAN : ListenerOnAccept(ec, inline)
    \/ \E s \in Sids : SessionOnRun(s)
    \/ \E s \in Sids, ec \in Ecs : SessionOnAccept(s, ec)
    \/ \E s \in Sids, ec \in ReadEcs, data \in ReadData, txt \in BOOLEAN :
           SessionOnRead(s, ec, data, txt)
    \/ \E s \in Sids, ec \in Ecs : SessionOnWrite(s, ec)
    \/ \E s \in Sids, ec \in Ecs : SessionOnClose(s, ec)

Spec == Init /\ [][Next]_vars


\* ---- the scenario of N clients ------------------------------------------
\* Every client sends one text message that is not JSON and then one valid
\* request envelope; its reads complete without error.  Accepts, handshakes
\* and writes complete as in Spec, in any interleaving of the sessions.
ScenarioData ==
    << {t \in Payloads : is_discarded(parse(t))},
       {t \in Payloads : ~is_discarded(parse(t)) /\ verify(parse(t))} >>

ScenarioRead(s) ==
    /\ sessions[s].nreads < Len(ScenarioData)
    /\ \E t \in ScenarioData[sessions[s].nreads + 1] :
           SessionOnRead(s, "ok", <<t>>, TRUE)

ScenarioNext ==
    \/ \E failAt \in 1..(Len(SetupSteps) + 1) : Construct(failAt)
    \/ Run
    \/ \E ec \in Ecs, inline \in BOOLEAN : ListenerOnAccept(ec, inline)
    \/ \E s \in Sids : SessionOnRun(s)
    \/ \E s \in Sids, ec \in Ecs : SessionOnAccept(s, ec)
    \/ \E s \in Sids : ScenarioRead(s)
    \/ \E s \in Sids, ec \in Ecs : SessionOnWrite(s, ec)

ScenarioSpec == Init /\ [][ScenarioNext]_vars


\* ---- sessions that see no failure ---------------------------------------
\* Every read delivers a text frame without error and every write succeeds;
\* the payloads are any of Payloads.  The reactor runs the completion
\* handler of a write that has completed, so the write handler of every
\* session is weakly fair.
GoodNext ==
    \/ \E failAt \in 1..(Len(SetupSteps) + 1) : Construct(failAt)
    \/ Run
    \/ \E ec \in Ecs, inline \in BOOLEAN : ListenerOnAccept(ec, inline)
    \/ \E s \in Sids : SessionOnRun(s)
    \/ \E s \in Sids, ec \in Ecs : SessionOnAccept(s, ec)
    \/ \E s \in Sids, t \in Payloads : SessionOnRead(s, "ok", <<t>>, TRUE)
    \/ \E s \in Sids : SessionOnWrite(s, "ok")

GoodSpec ==
    /\ Init
    /\ [][GoodNext]_vars
    /\ \A s \in Sids : WF_vars(SessionOnWrite(s, "ok"))

TypeOK ==
    /\ listener.pc \in {"new", "constructed", "running"}
    /\ listener.acceptor_ \in {"closed", "open", "bound", "listening"}
    /\ nSessions \in 0..MaxSessions
    /\ \A s \in Sids : sessions[s].created <=> s <= nSessions

\* ---- properties ---------------------------------------------------------
OnlyOp(op) == [ZeroOps EXCEPT ![op] = 1]
Envelope(code) == <<dump(gen_err(code))>>

\* on_read was the last handler of S and took a text frame without error
TextRead(S) == S.last.h = "on_read" /\ S.last.ec = "ok" /\ S.last.text

\* on_read was the last handler of S and went on to parse the buffer
Parsed(S) == S.last.h = "on_read" /\ S.last.ec # "closed" /\ S.last.text

\* C1: every text message read without error gets exactly one async_write
\* carrying one envelope, gen_err(-1) or gen_err(999), and a read is issued
\* only by a handler that completed without error (the handshake or the
\* write of the reply), with no write left in flight.
C1_RoundTrip ==
    \A s \in Sids :
        LET S == sessions[s] IN
        /\ TextRead(S) =>
              /\ S.last.started = OnlyOp("write")
              /\ S.ops = OnlyOp("write")
              /\ \E c \in {ParseErrCode, AcceptedCode} :
                     S.last.reply = <<c>> /\ S.wbuf = Envelope(c)
        /\ S.last.started["read"] > 0 =>
              /\ S.last.h \in {"on_accept", "on_write"}
              /\ S.last.ec = "ok"
              /\ S.last.started = OnlyOp("read")
              /\ S.ops["write"] = 0

C1_Witness ==
    \E s \in Sids :
        /\ TextRead(sessions[s])
        /\ sessions[s].nreads = 2
        /\ sessions[s].ops["write"] = 1
        /\ sessions[s].last.reply = <<AcceptedCode>>

\* C2: a session has at most one read and at most one write in flight, and
\* never a read and a write together.
C2_Sequencing ==
    \A s \in Sids :
        /\ sessions[s].ops["read"] <= 1
        /\ sessions[s].ops["write"] <= 1
        /\ sessions[s].ops["read"] + sessions[s].ops["write"] <= 1

C2_Witness ==
    \E s \in Sids :
        /\ sessions[s].last.h = "on_write"
        /\ sessions[s].nreads >= 1
        /\ sessions[s].ops["read"] = 1

\* C3: a read error other than the peer's close is reported and ends the
\* session: the handler starts no operation and none is left in flight.
C3_ReadErrorCloses ==
    \A s \in Sids :
        LET S == sessions[s] IN
        (S.last.h = "on_read" /\ S.last.ec = "err") =>
            /\ S.last.failed = "read"
            /\ S.last.started = ZeroOps
            /\ InFlight(S) = 0

\* C4: a session with an operation in flight is alive.
C4_SessionOutlivesOps ==
    \A s \in Sids : InFlight(sessions[s]) > 0 => ~Destroyed(sessions[s])

\* C5: a text payload the parser rejects is answered by the envelope with
\* code -1 and nothing else; no close is issued, and when the write of that
\* envelope succeeds the next read is issued.
C5_MalformedInput ==
    \A s \in Sids :
        LET S == sessions[s] IN
        /\ (Parsed(S) /\ is_discarded(parse(S.last.in))) =>
              /\ S.last.reply = <<ParseErrCode>>
              /\ S.wbuf = Envelope(ParseErrCode)
              /\ S.last.started = OnlyOp("write")
              /\ S.closes = <<>>
              /\ ~Destroyed(S)
        /\ (S.last.h = "on_write" /\ S.last.ec = "ok" /\ S.wbuf = Envelope(ParseErrCode)) =>
              /\ S.ops = OnlyOp("read")
              /\ S.closes = <<>>

C5_Witness ==
    \E s \in Sids :
        /\ TextRead(sessions[s])
        /\ is_discarded(parse(sessions[s].last.in))
        /\ sessions[s].ops["write"] = 1

\* C6: a text payload that parses and fails verify() is answered by the
\* envelope with code -1, never 999, and the session stays open: the write
\* is in flight, no close was issued, and a successful write issues a read.
C6_ShapeViolation ==
    \A s \in Sids :
        LET S == sessions[s] IN
        /\ (Parsed(S) /\ ~is_discarded(parse(S.last.in)) /\ ~verify(parse(S.last.in))) =>
              /\ S.last.reply = <<ParseErrCode>>
              /\ S.wbuf = Envelope(ParseErrCode)
              /\ S.wbuf # Envelope(AcceptedCode)
              /\ S.ops = OnlyOp("write")
              /\ S.closes = <<>>
              /\ ~Destroyed(S)
        /\ (S.last.h = "on_write" /\ S.last.ec = "ok") =>
              /\ S.last.started = OnlyOp("read")
              /\ ~Destroyed(S)

C6_Witness ==
    \E s \in Sids :
        /\ TextRead(sessions[s])
        /\ ~is_discarded(parse(sessions[s].last.in))
        /\ ~verify(parse(sessions[s].last.in))
        /\ sessions[s].ops["write"] = 1

\* C7: a read that delivers a non-text frame issues one close with code
\* 1000 and nothing else, and a session that issued a close has issued
\* exactly one and has no read, write or handshake in flight from then on.
C7_NonTextRejection ==
    \A s \in Sids :
        LET S == sessions[s] IN
        /\ (S.last.h = "on_read" /\ S.last.ec = "ok" /\ ~S.last.text) =>
              /\ S.closes = <<CloseNormal>>
              /\ S.last.started = OnlyOp("close")
              /\ S.last.reply = <<>>
        /\ S.closes # <<>> =>
              /\ Len(S.closes) = 1
              /\ S.last.h \in {"on_read", "close_handler"}
              /\ S.ops["read"] = 0 /\ S.ops["write"] = 0 /\ S.ops["accept"] = 0

C7_Witness ==
    \E s \in Sids :
        /\ sessions[s].last.h = "on_read"
        /\ sessions[s].last.ec = "ok"
        /\ ~sessions[s].last.text
        /\ sessions[s].ops["close"] = 1

\* C8: a handler entered with an error reports it to the sink or answers on
\* the connection (an envelope or a close).
C8_NoErrorDropped ==
    /\ listener.last.ec = "err" => listener.last.failed # "none"
    /\ \A s \in Sids :
           LET S == sessions[s] IN
           S.last.ec = "err" =>
               \/ S.last.failed # "none"
               \/ S.last.reply # <<>>
               \/ S.last.started["close"] > 0

\* C9: when the acceptor is not listening, an accept that has completed is
\* not followed by another one: the accept loop has stopped.
C9_AcceptLoopTerminates ==
    (listener.pc = "running" /\ listener.acceptor_ # "listening"
        /\ listener.last.h = "on_accept") => listener.pending = 0

\* C10: after run() exactly one accept is outstanding in every state, and
\* every completion of an accept, with or without error, armed exactly one.
C10_AcceptAlwaysArmed ==
    /\ listener.pc = "running" => listener.pending = 1
    /\ listener.last.h \in {"run", "on_accept"} => listener.last.armed = 1

C10_Witness ==
    /\ listener.last.h = "on_accept"
    /\ listener.last.ec = "err"
    /\ listener.pending = 1
    /\ \E s, t \in Sids :
           /\ sessions[s].ops["accept"] = 1
           /\ sessions[t].ops["write"] = 1

\* C11: an accept that completes with an error is reported, makes no session
\* and leaves one accept outstanding; the number of sessions changes only by
\* an accept that completed without error, which makes exactly one session,
\* the next one, and touches no other.
C11_AcceptErrorsSpawnNothing ==
    [][ /\ (listener'.last.h = "on_accept" /\ listener'.last.ec = "err") =>
              /\ listener'.last.failed = "accept"
              /\ listener'.last.spawned = 0
              /\ listener'.pending = 1
              /\ nSessions' = nSessions
        /\ nSessions' # nSessions =>
              /\ nSessions' = nSessions + 1
              /\ listener'.last.h = "on_accept"
              /\ listener'.last.ec = "ok"
              /\ listener'.last.spawned = 1
              /\ ~sessions[nSessions'].created
              /\ sessions'[nSessions'].created
              /\ \A t \in Sids \ {nSessions'} : sessions'[t] = sessions[t]
      ]_vars

C11_Witness ==
    /\ listener.last.h = "on_accept"
    /\ listener.last.ec = "err"
    /\ listener.acceptor_ = "listening"
    /\ nSessions = 1
    /\ listener.pending = 1

\* C12: when a setup step of the constructor fails, that step is the one
\* reported, the steps called are the ones up to it, each once, and the
\* listener never makes a session, run() or not.
C12_BindFailureInert ==
    /\ (listener.last.h = "WsListener" /\ listener.last.ec = "err") =>
          /\ listener.attempted # <<>>
          /\ listener.last.failed = listener.attempted[Len(listener.attempted)]
          /\ listener.acceptor_ # "listening"
    /\ (listener.pc # "new" /\ listener.acceptor_ # "listening") =>
          /\ \E k \in 1..Len(SetupSteps) :
                 /\ listener.attempted = SubSeq(SetupSteps, 1, k)
                 /\ listener.acceptor_ = AcceptorAfter(k)
          /\ nSessions = 0
          /\ \A s \in Sids : ~sessions[s].created

C12_Witness ==
    /\ listener.pc = "running"
    /\ listener.acceptor_ = "open"
    /\ listener.attempted = <<"open", "set_option", "bind">>
    /\ listener.last.h = "on_accept"

\* C14: a text message that was parsed is answered with code 999 exactly
\* when it parsed as JSON and passed verify(); 999 is not the code of the
\* parse and validation failures.
C14_PlaceholderOnSuccess ==
    /\ AcceptedCode # ParseErrCode
    /\ \A s \in Sids :
           LET S == sessions[s]
               j == parse(S.last.in)
           IN  Parsed(S) =>
                   /\ Len(S.last.reply) = 1
                   /\ (S.last.reply[1] = AcceptedCode <=> (~is_discarded(j) /\ verify(j)))
                   /\ S.wbuf = Envelope(S.last.reply[1])

C14_Witness ==
    \E s \in Sids :
        /\ TextRead(sessions[s])
        /\ verify(parse(sessions[s].last.in))
        /\ sessions[s].last.reply = <<AcceptedCode>>
        /\ sessions[s].nreads = 1

\* C15: a handshake that fails is reported and leaves the session with
\* nothing in flight, no read, write or close issued; a handshake that
\* succeeds issues one read and nothing else.
C15_HandshakeFailure ==
    \A s \in Sids :
        LET S == sessions[s] IN
        /\ (S.last.h = "on_accept" /\ S.last.ec = "err") =>
              /\ S.last.failed = "accept"
              /\ S.last.started = ZeroOps
              /\ InFlight(S) = 0
              /\ S.closes = <<>> /\ S.wbuf = <<>> /\ S.nreads = 0
        /\ (S.last.h = "on_accept" /\ S.last.ec = "ok") =>
              /\ S.last.failed = "none"
              /\ S.last.started = OnlyOp("read")
              /\ S.ops = OnlyOp("read")

C15_Witness ==
    \E s \in Sids :
        /\ sessions[s].last.h = "on_accept"
        /\ sessions[s].last.ec = "err"
        /\ Destroyed(sessions[s])

\* C16: a write that fails is reported and starts nothing; the session has
\* nothing in flight and does not change again.  A write that succeeds
\* leaves the buffer empty and issues one read.
C16_WriteErrorCloses ==
    /\ [](\A s \in Sids :
            LET S == sessions[s] IN
            /\ (S.last.h = "on_write" /\ S.last.ec = "err") =>
                  /\ S.last.failed = "write"
                  /\ S.last.started = ZeroOps
                  /\ InFlight(S) = 0
            /\ (S.last.h = "on_write" /\ S.last.ec = "ok") =>
                  /\ S.buffer_ = <<>>
                  /\ S.last.started = OnlyOp("read")
                  /\ S.ops = OnlyOp("read"))
    /\ [][\A s \in Sids :
            (sessions[s].last.h = "on_write" /\ sessions[s].last.ec = "err") =>
                sessions'[s] = sessions[s]]_vars

C16_Witness ==
    \E s \in Sids :
        /\ sessions[s].last.h = "on_write"
        /\ sessions[s].last.ec = "err"
        /\ sessions[s].nreads = 2

\* C17: a read that completes with websocket::error::closed ends the
\* session silently: nothing is reported, no reply is composed, no
\* operation is started and none is in flight.
C17_PeerCloseSilent ==
    \A s \in Sids :
        LET S == sessions[s] IN
        (S.last.h = "on_read" /\ S.last.ec = "closed") =>
            /\ S.last.failed = "none"
            /\ S.last.reply = <<>>
            /\ S.last.started = ZeroOps
            /\ InFlight(S) = 0
            /\ S.closes = <<>>

C17_Witness ==
    \E s \in Sids :
        /\ sessions[s].last.h = "on_read"
        /\ sessions[s].last.ec = "closed"
        /\ sessions[s].nreads = 2
        /\ sessions[s].wbuf = <<>>

\* the envelope on_read sends for the text it parsed
ReplyFor(t) ==
    IF ~is_discarded(parse(t)) /\ verify(parse(t))
    THEN Envelope(AcceptedCode)
    ELSE Envelope(ParseErrCode)

\* C19: buffer_ is empty whenever a read is issued or outstanding, and the
\* bytes handed to a write are exactly the serialised reply to the message
\* just read, with nothing of the request or of an earlier reply.
C19_BufferHygiene ==
    \A s \in Sids :
        LET S == sessions[s] IN
        /\ (S.last.started["read"] > 0 \/ S.ops["read"] > 0) => S.buffer_ = <<>>
        /\ S.last.started["write"] > 0 =>
              /\ S.last.h = "on_read"
              /\ S.wbuf = ReplyFor(S.last.in)
              /\ S.buffer_ = S.wbuf

C19_Witness ==
    \E s \in Sids :
        /\ sessions[s].last.h = "on_read"
        /\ sessions[s].nreads = 2
        /\ sessions[s].ops["write"] = 1
        /\ sessions[s].last.in.wf
        /\ sessions[s].wbuf = Envelope(ParseErrCode)

\* C20: on_read starts no operation when the peer closed, exactly one close
\* when the frame is not text, and exactly one write otherwise.
C20_OnReadStartsOneOp ==
    \A s \in Sids :
        LET S == sessions[s] IN
        S.last.h = "on_read" =>
            S.last.started =
                IF S.last.ec = "closed" THEN ZeroOps
                ELSE IF ~S.last.text THEN OnlyOp("close")
                ELSE OnlyOp("write")

C20_Witness ==
    \E s \in Sids :
        /\ sessions[s].last.h = "on_read"
        /\ sessions[s].last.ec = "err"
        /\ sessions[s].last.text
        /\ sessions[s].last.started = OnlyOp("write")

\* the codes every client of the scenario is to get, in order
ScenarioReplies == <<ParseErrCode, AcceptedCode>>

\* C13: in the scenario of N clients, whatever the interleaving, the k-th
\* read of every session is answered by one envelope with the k-th code of
\* [-1, 999], handed to that session's own write; only on_read sends
\* envelopes, and a step of one session changes no other session.
C13_SessionIndependence ==
    /\ [](\A s \in Sids :
            LET S == sessions[s] IN
            /\ S.nreads <= Len(ScenarioReplies)
            /\ S.last.h = "on_read" =>
                  /\ S.last.reply = <<ScenarioReplies[S.nreads]>>
                  /\ S.wbuf = Envelope(ScenarioReplies[S.nreads])
                  /\ S.ops = OnlyOp("write")
            /\ S.last.h # "on_read" => S.last.reply = <<>> /\ S.last.started["write"] = 0
            /\ (S.last.h = "on_write" /\ S.nreads >= 1) =>
                  S.wbuf \in {Envelope(ScenarioReplies[S.nreads]), <<>>})
    /\ [][\A s, t \in Sids :
            (s # t /\ sessions'[s] # sessions[s]) => sessions'[t] = sessions[t]]_vars

C13_Witness ==
    \A s \in Sids :
        /\ sessions[s].nreads = Len(ScenarioReplies)
        /\ sessions[s].last.h = "on_write"
        /\ sessions[s].last.ec = "ok"
        /\ sessions[s].wbuf = Envelope(AcceptedCode)
        /\ sessions[s].ops = OnlyOp("read")

\* the handshake of S succeeded: S is in its read / reply / write loop
Serving(S) ==
    \/ S.last.h \in {"on_read", "on_write"}
    \/ S.last.h = "on_accept" /\ S.last.ec = "ok"

\* C18: a session whose handshake succeeded and that sees only text frames
\* read without error and successful writes has exactly one operation in
\* flight in every state, is never destroyed, and always comes back to
\* having a read outstanding.
C18_LoopLiveness ==
    /\ [](\A s \in Sids :
            Serving(sessions[s]) =>
                /\ InFlight(sessions[s]) = 1
                /\ sessions[s].ops["read"] + sessions[s].ops["write"] = 1
                /\ ~Destroyed(sessions[s]))
    /\ \A s \in Sids :
           Serving(sessions[s]) ~> (sessions[s].ops["read"] = 1)

C18_Witness ==
    \E s \in Sids :
        /\ sessions[s].last.h = "on_write"
        /\ sessions[s].nreads = 2
        /\ sessions[s].ops["read"] = 1
        /\ sessions[s].wbuf = Envelope(ParseErrCode)
====
